---- MODULE Spec2Model ----
(***************************************************************************)
(* Model of the subscription session manager of SOFA                       *)
(* (src/src/subscriptions.ts, class SubscriptionManager).                  *)
(*                                                                         *)
(* JavaScript runs the manager on one thread.  A step of the model is one  *)
(* run-to-completion piece of a handler: the code between two awaits whose *)
(* promise is settled by something outside the manager (the context        *)
(* resolver and graphql's subscribe, the stream's next value, the          *)
(* outbound HTTP post).  Promise reactions that follow without such an     *)
(* outside event are part of the same step.                                *)
(*                                                                         *)
(* The second part models the operation synthesizer the manager builds its *)
(* documents with (buildOperation, src/unnamed/part_000), as a machine of  *)
(* its own: SynthSpec runs it on a set of schemas, Spec and LiveSpec run   *)
(* the manager.                                                            *)
(***************************************************************************)
EXTENDS Integers, Sequences, FiniteSets, TLC

(***************************************************************************)
(* Bounds of the model.                                                    *)
(***************************************************************************)
\* how many identifiers uuid() hands out to starts that reach execute
MaxIds == 2
\* how many values one stream yields at most
MaxValues == 2

Ids == 1..MaxIds
NoId == 0

(***************************************************************************)
(* JavaScript values, as far as the manager looks at them.                 *)
(***************************************************************************)
Undefined == [type |-> "undefined", val |-> ""]
JSString(s) == [type |-> "string", val |-> s]
JSNumber(s) == [type |-> "number", val |-> s]

\* the schema of the model: subscription { messageAdded(roomId: ID!, length: Int): Message }
KnownField == "messageAdded"
UnknownField == "notAField"
FieldNames == {KnownField, UnknownField}
VariableNames == {"roomId", "length"}
Keys == VariableNames \cup FieldNames
Urls == {"https://cb"}

\* event.variables of a request: an object, read by property name
NoVariables == [k \in Keys |-> Undefined]
SuppliedVariables ==
    { NoVariables,
      [NoVariables EXCEPT !["roomId"] = JSString("42")] }

VARIABLES
    operations,  \* Map<SubscriptionFieldName, BuiltOperation>
    hasReturn,   \* per subscription field: the iterators of its streams have a return method
    clients,     \* Map<ID, StoredClient>: name and url (the iterator is stream[id])
    pending,     \* starts suspended in execute, by the identifier uuid() gave them
    stream,      \* the AsyncIterator subscribe() returned for an identifier
    pump,        \* the detached forAwaitEach task of an identifier
    response,    \* what the latest step settled a start, stop or update promise with
    nextId       \* the next identifier uuid() returns

vars == <<operations, hasReturn, clients, pending, stream, pump, response, nextId>>

(***************************************************************************)
(* Pure parts of execute (subscriptions.ts 174-190).                       *)
(***************************************************************************)
\* a number rendered as the property value of the model
NumStr(n) == CASE n = 0 -> "0" [] n = 1 -> "1" [] n = 2 -> "2" [] n = 3 -> "3" [] OTHER -> "many"

\* array[key] of a JavaScript array for a key that is a GraphQL name: the
\* array's own length, nothing for any other name of the model (no name of
\* the model is a member of Array.prototype)
ArrayProp(array, key) == IF key = "length" THEN JSNumber(NumStr(Len(array))) ELSE Undefined

\* parseVariable of ./parse: absent stays absent, anything else is coerced
\* to the variable's schema type
parseVariable(value) ==
    IF value = Undefined THEN Undefined ELSE [type |-> "coerced", val |-> value.val]

\* the reduce of execute: `name` is execute's parameter (the subscription
\* field), `variables` is execute's parameter of that name, variableNodes the
\* stored definitions it walks
RECURSIVE reduceVariableValues(_, _, _)
reduceVariableValues(variableNodes, name, variables) ==
    IF variableNodes = <<>> THEN [k \in Keys |-> Undefined]
    ELSE LET values == reduceVariableValues(SubSeq(variableNodes, 1, Len(variableNodes) - 1),
                                            name, variables)
             variable == variableNodes[Len(variableNodes)]
             value == parseVariable(ArrayProp(variables, variable))
         IN  IF value = Undefined THEN values
             ELSE [values EXCEPT ![name] = value]

\* start, lines 86-97: what execute receives as `variables` is the
\* `variables` destructured from the stored operation, the definition nodes,
\* and never event.variables
executeVariableValues(name, eventVariables) ==
    reduceVariableValues(operations[name].variables, name, operations[name].variables)

(***************************************************************************)
(* The session store.                                                      *)
(***************************************************************************)
\* mutant of ClientsSet: the store is replaced by the one new entry
ClientsSetOnly(id, name, url) == [k \in {id} |-> [name |-> name, url |-> url]]

\* this.clients.set(id, {name, url, iterator})
ClientsSet(id, name, url) ==
    [k \in DOMAIN clients \cup {id} |->
        IF k = id THEN [name |-> name, url |-> url] ELSE clients[k]]

\* mutant of ClientsDelete: the entry stays in the store
ClientsDeleteNothing(id) == clients

\* this.clients.delete(id)
ClientsDelete(id) == [k \in DOMAIN clients \ {id} |-> clients[k]]

\* execution.iterator.return(), called when the iterator has a return method
IteratorReturn(id) ==
    IF stream[id].canReturn /\ stream[id].state = "open"
    THEN [stream EXCEPT ![id].state = "returned"]
    ELSE stream

\* the value or the error the caller of op(arg) receives
Response(op, arg, kind, id) == [op |-> op, arg |-> arg, kind |-> kind, id |-> id]
\* the step settled no request
NoResponse == Response("none", NoId, "none", NoId)

\* the synchronous head of start up to execute's first await: the record of
\* the suspended call
Suspended(name, url, eventVariables, op, old) ==
    [name |-> name, url |-> url, variables |-> eventVariables,
     variableValues |-> executeVariableValues(name, eventVariables),
     op |-> op, old |-> old]

PendingWith(id, rec) == [k \in DOMAIN pending \cup {id} |-> IF k = id THEN rec ELSE pending[k]]
PendingWithout(id) == [k \in DOMAIN pending \ {id} |-> pending[k]]

NoStream == [state |-> "none", produced |-> 0, canReturn |-> FALSE]
NoPump == [pc |-> "idle", inflight |-> {}, delivered |-> <<>>]

Init ==
    /\ operations = [f \in {KnownField} |->
                        [operationName |-> "messageAddedSubscription",
                         variables |-> <<"roomId", "length">>]]
    /\ hasReturn \in [{KnownField} -> BOOLEAN]
    /\ clients = [k \in {} |-> [name |-> "", url |-> ""]]
    /\ pending = [k \in {} |-> 0]
    /\ stream = [i \in Ids |-> NoStream]
    /\ pump = [i \in Ids |-> NoPump]
    /\ response = NoResponse
    /\ nextId = 1

(***************************************************************************)
(* start, stop, update as called by an external caller.                    *)
(***************************************************************************)
\* mutant of Start: no check that the field has an operation
StartUnchecked(name, url, eventVariables) ==
    /\ nextId <= MaxIds
    /\ pending' = PendingWith(nextId,
           [name |-> name, url |-> url, variables |-> eventVariables,
            variableValues |-> NoVariables, op |-> "start", old |-> NoId])
    /\ nextId' = nextId + 1
    /\ response' = NoResponse
    /\ UNCHANGED <<operations, hasReturn, clients, stream, pump>>

\* start, lines 79-97, up to the first await of execute.  uuid() is taken to
\* return an identifier never returned before; the one drawn by a start that
\* throws on line 83 is used nowhere.
Start(name, url, eventVariables) ==
    IF name \notin DOMAIN operations
    THEN /\ response' = Response("start", NoId, "UnknownSubscriptionField", NoId)
         /\ UNCHANGED <<operations, hasReturn, clients, pending, stream, pump, nextId>>
    ELSE /\ nextId <= MaxIds
         /\ pending' = PendingWith(nextId, Suspended(name, url, eventVariables, "start", NoId))
         /\ nextId' = nextId + 1
         /\ response' = NoResponse
         /\ UNCHANGED <<operations, hasReturn, clients, stream, pump>>

\* mutant of ExecuteStream: the caller of update gets back the identifier it sent
ExecuteStreamReturnsOld(id) ==
    /\ id \in DOMAIN pending
    /\ clients' = ClientsSet(id, pending[id].name, pending[id].url)
    /\ stream' = [stream EXCEPT ![id] = [state |-> "open", produced |-> 0,
                                          canReturn |-> hasReturn[pending[id].name]]]
    /\ pump' = [pump EXCEPT ![id].pc = "next"]
    /\ response' = Response(pending[id].op, pending[id].old, "id",
                            IF pending[id].op = "update" THEN pending[id].old ELSE id)
    /\ pending' = PendingWithout(id)
    /\ UNCHANGED <<operations, hasReturn, nextId>>

\* execute resumes with a live stream, lines 204-229, and start returns {id}:
\* forAwaitEach calls next() at once, and start's return follows execute's by
\* one promise reaction, before any reaction of the pump can reach a handler
ExecuteStream(id) ==
    /\ id \in DOMAIN pending
    /\ clients' = ClientsSet(id, pending[id].name, pending[id].url)
    /\ stream' = [stream EXCEPT ![id] = [state |-> "open", produced |-> 0, canReturn |-> hasReturn[pending[id].name]]]
    /\ pump' = [pump EXCEPT ![id].pc = "next"]
    /\ response' = Response(pending[id].op, pending[id].old, "id", id)
    /\ pending' = PendingWithout(id)
    /\ UNCHANGED <<operations, hasReturn, nextId>>

\* mutant of ExecuteResult: the entry is set before the result is looked at
ExecuteResultRegisters(id) ==
    /\ id \in DOMAIN pending
    /\ clients' = ClientsSet(id, pending[id].name, pending[id].url)
    /\ response' = Response(pending[id].op, pending[id].old, "result", NoId)
    /\ pending' = PendingWithout(id)
    /\ UNCHANGED <<operations, hasReturn, stream, pump, nextId>>

\* execute resumes with an ExecutionResult, lines 230-232 and 99-101
ExecuteResult(id) ==
    /\ id \in DOMAIN pending
    /\ response' = Response(pending[id].op, pending[id].old, "result", NoId)
    /\ pending' = PendingWithout(id)
    /\ UNCHANGED <<operations, hasReturn, clients, stream, pump, nextId>>

\* the context resolver or subscribe rejects: the awaits of lines 192-202 throw
ExecuteRejected(id) ==
    /\ id \in DOMAIN pending
    /\ response' = Response(pending[id].op, pending[id].old, "rejected", NoId)
    /\ pending' = PendingWithout(id)
    /\ UNCHANGED <<operations, hasReturn, clients, stream, pump, nextId>>

\* mutant of Stop: the entry is not deleted
StopKeepsEntry(id) ==
    IF id \notin DOMAIN clients
    THEN /\ response' = Response("stop", id, "UnknownSessionId", NoId)
         /\ UNCHANGED <<operations, hasReturn, clients, pending, stream, pump, nextId>>
    ELSE /\ stream' = IteratorReturn(id)
         /\ response' = Response("stop", id, "id", id)
         /\ UNCHANGED <<operations, hasReturn, clients, pending, pump, nextId>>

\* stop, lines 106-120
Stop(id) ==
    IF id \notin DOMAIN clients
    THEN /\ response' = Response("stop", id, "UnknownSessionId", NoId)
         /\ UNCHANGED <<operations, hasReturn, clients, pending, stream, pump, nextId>>
    ELSE /\ stream' = IteratorReturn(id)
         /\ clients' = ClientsDelete(id)
         /\ response' = Response("stop", id, "id", id)
         /\ UNCHANGED <<operations, hasReturn, pending, pump, nextId>>

\* mutant of Update: start without the stop of line 140
UpdateWithoutStop(id, eventVariables) ==
    IF id \notin DOMAIN clients
    THEN /\ response' = Response("update", id, "UnknownSessionId", NoId)
         /\ UNCHANGED <<operations, hasReturn, clients, pending, stream, pump, nextId>>
    ELSE /\ nextId <= MaxIds
         /\ pending' = PendingWith(nextId,
                Suspended(clients[id].name, clients[id].url, eventVariables, "update", id))
         /\ nextId' = nextId + 1
         /\ response' = NoResponse
         /\ UNCHANGED <<operations, hasReturn, clients, stream, pump>>

\* update, lines 132-152: the check, the unawaited stop (it has no await, so
\* it runs to its end), and the head of start
Update(id, eventVariables) ==
    IF id \notin DOMAIN clients
    THEN /\ response' = Response("update", id, "UnknownSessionId", NoId)
         /\ UNCHANGED <<operations, hasReturn, clients, pending, stream, pump, nextId>>
    ELSE /\ nextId <= MaxIds
         /\ stream' = IteratorReturn(id)
         /\ clients' = ClientsDelete(id)
         /\ pending' = PendingWith(nextId,
                Suspended(clients[id].name, clients[id].url, eventVariables, "update", id))
         /\ nextId' = nextId + 1
         /\ response' = NoResponse
         /\ UNCHANGED <<operations, hasReturn, pump>>

(***************************************************************************)
(* The pump: forAwaitEach(execution, sendData).then(stop, log and stop).   *)
(* The stream is seen through next() alone: while it is open a pending     *)
(* next() may yield a value, report the end or reject, as the source       *)
(* decides; once return() was called it reports the end.                   *)
(***************************************************************************)
\* mutant of PcAfterSend: the callback does not await sendData
PcAfterSendNotAwaited == "next"

\* where the pump waits once sendData has fired its post
PcAfterSend == "post"

\* mutant of PumpValue: sendData posts without looking the session up
PumpValueUnchecked(id) ==
    /\ pump[id].pc = "next"
    /\ stream[id].state = "open"
    /\ stream[id].produced < MaxValues
    /\ stream' = [stream EXCEPT ![id].produced = @ + 1]
    /\ pump' = [pump EXCEPT ![id].pc = PcAfterSend,
                            ![id].inflight = @ \cup {stream[id].produced + 1}]
    /\ response' = NoResponse
    /\ UNCHANGED <<operations, hasReturn, clients, pending, nextId>>

\* next() yields a value and the callback runs sendData, lines 215-219 and 235-244
PumpValue(id) ==
    /\ pump[id].pc = "next"
    /\ stream[id].state = "open"
    /\ stream[id].produced < MaxValues
    /\ stream' = [stream EXCEPT ![id].produced = @ + 1]
    /\ pump' = IF id \in DOMAIN clients
               THEN [pump EXCEPT ![id].pc = PcAfterSend,
                                 ![id].inflight = @ \cup {stream[id].produced + 1}]
               ELSE [pump EXCEPT ![id].pc = "rejected"]
    /\ response' = NoResponse
    /\ UNCHANGED <<operations, hasReturn, clients, pending, nextId>>

\* next() reports the end of the stream (by itself, or after return()):
\* forAwaitEach resolves
PumpDone(id) ==
    /\ pump[id].pc = "next"
    /\ stream[id].state \in {"open", "returned"}
    /\ pump' = [pump EXCEPT ![id].pc = "resolved"]
    /\ response' = NoResponse
    /\ UNCHANGED <<operations, hasReturn, clients, pending, stream, nextId>>

\* next() rejects, the stream raised an error: forAwaitEach rejects
PumpThrow(id) ==
    /\ pump[id].pc = "next"
    /\ stream[id].state = "open"
    /\ pump' = [pump EXCEPT ![id].pc = "rejected"]
    /\ response' = NoResponse
    /\ UNCHANGED <<operations, hasReturn, clients, pending, stream, nextId>>

\* the post of sendData succeeds, line 242; the callback's promise resolves
\* and forAwaitEach asks for the next value
PostOk(id) ==
    /\ pump[id].pc = "post"
    /\ \E v \in pump[id].inflight :
          pump' = [pump EXCEPT ![id].pc = "next",
                               ![id].inflight = @ \ {v},
                               ![id].delivered = Append(@, v)]
    /\ response' = NoResponse
    /\ UNCHANGED <<operations, hasReturn, clients, pending, stream, nextId>>

\* the post of sendData fails: sendData rejects and so does forAwaitEach
PostFail(id) ==
    /\ pump[id].pc = "post"
    /\ \E v \in pump[id].inflight :
          pump' = [pump EXCEPT ![id].pc = "rejected", ![id].inflight = @ \ {v}]
    /\ response' = NoResponse
    /\ UNCHANGED <<operations, hasReturn, clients, pending, stream, nextId>>

\* a pump that has run its handler: the task, its closure and (the entry
\* being deleted) the stream are garbage
PumpOver(pc) == [pc |-> pc, inflight |-> {}, delivered |-> <<>>]

\* this.stop(id) as the pump calls it, lines 223 and 227: nothing awaits or
\* catches the promise it returns, so its throw is an unhandled rejection.
\* Its return() reaches a stream that no pump reads any more.
PumpStop(id) ==
    IF id \notin DOMAIN clients
    THEN /\ pump' = [pump EXCEPT ![id] = PumpOver("unhandled")]
         /\ stream' = [stream EXCEPT ![id] = NoStream]
         /\ UNCHANGED clients
    ELSE /\ stream' = [stream EXCEPT ![id] = NoStream]
         /\ clients' = ClientsDelete(id)
         /\ pump' = [pump EXCEPT ![id] = PumpOver("ended")]

\* lines 221-224
PumpOnResolved(id) ==
    /\ pump[id].pc = "resolved"
    /\ PumpStop(id)
    /\ response' = NoResponse
    /\ UNCHANGED <<operations, hasReturn, pending, nextId>>

\* mutant of PumpOnRejected: the error is logged and the session is left
PumpOnRejectedLogsOnly(id) ==
    /\ pump[id].pc = "rejected"
    /\ pump' = [pump EXCEPT ![id] = PumpOver("ended")]
    /\ response' = NoResponse
    /\ UNCHANGED <<operations, hasReturn, clients, pending, stream, nextId>>

\* lines 225-228
PumpOnRejected(id) ==
    /\ pump[id].pc = "rejected"
    /\ PumpStop(id)
    /\ response' = NoResponse
    /\ UNCHANGED <<operations, hasReturn, pending, nextId>>

(***************************************************************************)
(* The operation synthesizer (operation.ts): buildOperation walks the      *)
(* schema from one root field and produces a document and its variable     *)
(* definitions.  One step of the model is one resolveField call or the     *)
(* return of one resolveSelectionSet call.                                 *)
(***************************************************************************)
\* how many buildOperation calls one run makes
MaxCalls == 3
\* the depth of nested resolveSelectionSet calls at which the engine raises
\* RangeError: Maximum call stack size exceeded
MaxStack == 6

\* A name is the string it is written as: its words and how they are joined
\* ("roomId" is camel <<"room","id">>, "room_id" is snake <<"room","id">>; a
\* one-word name is the same string in both styles).
Nm(words) == [style |-> "camel", words |-> words]
Snake(words) == [style |-> IF Len(words) > 1 THEN "snake" ELSE "camel", words |-> words]
NoName == Nm(<<>>)

\* changeCase.camel: split at "_" and at case boundaries, lower-case the first
\* word, capitalise the others, join without separator
camel(name) == Nm(name.words)

RECURSIVE JoinUnderscore(_)
\* [...path, name].join('_'): the words of all parts, separated by "_"
JoinUnderscore(parts) ==
    IF parts = <<>> THEN Snake(<<>>)
    ELSE IF Len(parts) = 1 THEN parts[1]
    ELSE Snake(parts[1].words \o JoinUnderscore(Tail(parts)).words)

buildOperationName(name) == camel(name)

getArgumentName(name, path) == camel(JoinUnderscore(path \o <<name>>))

\* a type reference: the named type and the list/non-null wrappers around it
\* as String(type) prints them ("" for none, "!" for T!, "[]" for [T], ...)
TypeRef(named, wrap) == [named |-> named, wrap |-> wrap]
getNamedType(type) == type.named
Arg(name, type) == [name |-> name, type |-> type]
Field(name, type, args) == [name |-> name, type |-> type, args |-> args]
ObjectType(fields) == [kind |-> "object", fields |-> fields, members |-> <<>>]
UnionType(members) == [kind |-> "union", fields |-> <<>>, members |-> members]
ScalarType == [kind |-> "scalar", fields |-> <<>>, members |-> <<>>]

\* an ignore entry is a type name ("User") or "Parent.field" ("Post.author")
IgnoreType(t) == [type |-> t, field |-> NoName]
IgnoreField(parent, field) == [type |-> parent, field |-> field]

Id == Nm(<<"id">>)
IdField == Field(Id, TypeRef("ID", "!"), <<>>)
Scalars == [t \in {"ID", "String", "Int"} |-> ScalarType]

\* the schemas synthesis is run on; every one is a schema graphql-js accepts
ChatSchema ==
    [name |-> "chat", kind |-> "subscription", root |-> "Subscription", models |-> {"Message", "User"}, ignore |-> {},
     types |-> Scalars
       @@ ("Subscription" :> ObjectType(<<
             Field(Nm(<<"message", "added">>), TypeRef("Message", ""),
                   <<Arg(Nm(<<"room", "id">>), TypeRef("ID", "!"))>>)>>))
       @@ ("Message" :> ObjectType(<<
             IdField,
             Field(Nm(<<"text">>), TypeRef("String", ""),
                   <<Arg(Nm(<<"format">>), TypeRef("String", ""))>>),
             Field(Nm(<<"author">>), TypeRef("User", ""), <<>>)>>))
       @@ ("User" :> ObjectType(<<IdField, Field(Nm(<<"name">>), TypeRef("String", ""), <<>>)>>))]

\* A has a field of type B and B a field of type A
CycleSchema ==
    [name |-> "cycle", kind |-> "query", root |-> "Query", models |-> {}, ignore |-> {},
     types |-> Scalars
       @@ ("Query" :> ObjectType(<<Field(Nm(<<"a">>), TypeRef("A", ""), <<>>)>>))
       @@ ("A" :> ObjectType(<<IdField, Field(Nm(<<"b">>), TypeRef("B", ""), <<>>)>>))
       @@ ("B" :> ObjectType(<<IdField, Field(Nm(<<"a">>), TypeRef("A", ""), <<>>)>>))]

\* a self-referential type
SelfSchema ==
    [name |-> "self", kind |-> "query", root |-> "Query", models |-> {}, ignore |-> {},
     types |-> Scalars
       @@ ("Query" :> ObjectType(<<Field(Nm(<<"me">>), TypeRef("User", ""), <<>>)>>))
       @@ ("User" :> ObjectType(<<IdField, Field(Nm(<<"friend">>), TypeRef("User", ""), <<>>)>>))]

\* the same cycle as CycleSchema, written with the usual wrappers:
\* User.posts: [Post!]! and Post.author: User!
WrappedSchema ==
    [name |-> "wrapped", kind |-> "query", root |-> "Query", models |-> {}, ignore |-> {},
     types |-> Scalars
       @@ ("Query" :> ObjectType(<<Field(Nm(<<"me">>), TypeRef("User", ""), <<>>)>>))
       @@ ("User" :> ObjectType(<<IdField, Field(Nm(<<"posts">>), TypeRef("Post", "[!]!"), <<>>)>>))
       @@ ("Post" :> ObjectType(<<IdField, Field(Nm(<<"author">>), TypeRef("User", "!"), <<>>)>>))]

\* models and an ignore entry: Post.author is to be expanded in full
BlogSchema ==
    [name |-> "blog", kind |-> "query", root |-> "Query", models |-> {"User"},
     ignore |-> {IgnoreField("Post", Nm(<<"author">>))},
     types |-> Scalars
       @@ ("Query" :> ObjectType(<<
             Field(Nm(<<"me">>), TypeRef("User", ""), <<>>),
             Field(Nm(<<"tag">>), TypeRef("Tag", ""), <<>>)>>))
       @@ ("User" :> ObjectType(<<IdField, Field(Nm(<<"posts">>), TypeRef("Post", "[!]!"), <<>>)>>))
       @@ ("Post" :> ObjectType(<<IdField, Field(Nm(<<"author">>), TypeRef("User", "!"), <<>>)>>))
       @@ ("Tag" :> ObjectType(<<IdField, Field(Nm(<<"owner">>), TypeRef("User", ""), <<>>)>>))]

\* a union whose members both have image(size: Int)
SearchSchema ==
    [name |-> "search", kind |-> "query", root |-> "Query", models |-> {"User"}, ignore |-> {},
     types |-> Scalars
       @@ ("Query" :> ObjectType(<<
             Field(Nm(<<"search">>), TypeRef("SearchResult", ""),
                   <<Arg(Nm(<<"term">>), TypeRef("String", "!"))>>)>>))
       @@ ("SearchResult" :> UnionType(<<"User", "Post">>))
       @@ ("User" :> ObjectType(<<
             IdField,
             Field(Nm(<<"name">>), TypeRef("String", ""), <<>>),
             Field(Nm(<<"image">>), TypeRef("String", ""),
                   <<Arg(Nm(<<"size">>), TypeRef("Int", ""))>>)>>))
       @@ ("Post" :> ObjectType(<<
             IdField,
             Field(Nm(<<"image">>), TypeRef("String", ""),
                   <<Arg(Nm(<<"size">>), TypeRef("Int", ""))>>)>>))]

\* a cycle through a union: a folder's child is a folder or a file
TreeSchema ==
    [name |-> "tree", kind |-> "query", root |-> "Query", models |-> {}, ignore |-> {},
     types |-> Scalars
       @@ ("Query" :> ObjectType(<<Field(Nm(<<"node">>), TypeRef("Node", ""), <<>>)>>))
       @@ ("Node" :> UnionType(<<"Folder", "File">>))
       @@ ("Folder" :> ObjectType(<<IdField, Field(Nm(<<"child">>), TypeRef("Node", ""), <<>>)>>))
       @@ ("File" :> ObjectType(<<IdField>>))]

\* a root argument written in snake case: room(room_id: ID!)
RoomSchema ==
    [name |-> "room", kind |-> "query", root |-> "Query", models |-> {}, ignore |-> {},
     types |-> Scalars
       @@ ("Query" :> ObjectType(<<
             Field(Nm(<<"room">>), TypeRef("Room", ""),
                   <<Arg(Snake(<<"room", "id">>), TypeRef("ID", "!"))>>)>>))
       @@ ("Room" :> ObjectType(<<IdField, Field(Nm(<<"name">>), TypeRef("String", ""), <<>>)>>))]

Schemas ==
    {ChatSchema, CycleSchema, SelfSchema, WrappedSchema, BlogSchema, SearchSchema,
     TreeSchema, RoomSchema}

VARIABLES
    schema,             \* the schema and configuration buildOperation is given
    phase,              \* "idle", "running", "done" (returned) or "thrown"
    calls,              \* buildOperation calls made so far
    callField,          \* the root field of the current or latest call
    stack,              \* the resolveSelectionSet calls in progress, innermost last
    selections,         \* the selection nodes built so far, each with its place
    operationVariables, \* the module's accumulator, line 32
    visitedTypes,       \* the module's visitedTypes: the names whose entry is true
    result,             \* what the latest call returned
    built               \* per root field, what its first returning call returned

synthVars ==
    <<schema, phase, calls, callField, stack, selections, operationVariables,
      visitedTypes, result, built>>

NoResult == [name |-> NoName, selections |-> {}, variables |-> <<>>, returned |-> FALSE]

TypeOf(name) == schema.types[name]
isScalarType(name) == TypeOf(name).kind = "scalar"
isUnionType(name) == TypeOf(name).kind = "union"
isObjectType(name) == TypeOf(name).kind = "object"
RootFields == TypeOf(schema.root).fields

\* visitedTypes[String(field.type)]
Found(type) == type.wrap = "" /\ type.named \in visitedTypes

resolveVariable(arg, name) == [name |-> name, type |-> arg.type]

\* the variable definitions resolveField adds for a field's arguments
FieldVariables(field, path) ==
    [i \in 1..Len(field.args) |->
        resolveVariable(field.args[i], getArgumentName(field.args[i].name, path))]

\* the variable definitions buildDocumentNode adds for the root field
RootVariables(field) ==
    [i \in 1..Len(field.args) |-> resolveVariable(field.args[i], field.args[i].name)]

On(t) == [style |-> "on", words |-> <<t>>]

\* the Field node resolveField returns, at its place in the document
FieldNode(parent, field, path, where) ==
    [kind |-> "Field", where |-> where, name |-> field.name,
     type |-> getNamedType(field.type), parent |-> parent,
     args |-> [i \in 1..Len(field.args) |->
                 [name |-> field.args[i].name,
                  variable |-> getArgumentName(field.args[i].name, path),
                  type |-> field.args[i].type]]]

\* the literal field of a collapsed model, lines 200-208
IdNode(type, where) ==
    [kind |-> "Field", where |-> where, name |-> Id, type |-> "ID", parent |-> type,
     args |-> <<>>]

InlineFragment(union, t, where) ==
    [kind |-> "InlineFragment", where |-> where, name |-> On(t), type |-> t,
     parent |-> union, args |-> <<>>]

Frame(kind, type, path, where, members, todo) ==
    [kind |-> kind, type |-> type, path |-> path, where |-> where,
     members |-> members, todo |-> todo]

Top == stack[Len(stack)]
Pop == SubSeq(stack, 1, Len(stack) - 1)
\* the caller's frame once it has taken the field it is about to resolve
Advanced == Append(Pop, [Top EXCEPT !.todo = Tail(@)])

isIgnored(parent, type, path) ==
    \/ IgnoreType(type) \in schema.ignore
    \/ path # <<>> /\ IgnoreField(parent, path[Len(path)]) \in schema.ignore

\* the fields of an object type that survive the filter of lines 217-225
Filtered(type) == SelectSeq(TypeOf(type).fields, LAMBDA f : ~Found(f.type))

\* the call stack is exhausted: the RangeError unwinds every frame, nothing
\* after the recursive calls runs
StackOverflow ==
    /\ phase' = "thrown"
    /\ stack' = <<>>
    /\ selections' = {}
    /\ UNCHANGED visitedTypes

resolveSelectionSet(base, node, parent, type, firstCall, path, where) ==
    CASE isUnionType(type) ->
           IF Len(base) >= MaxStack THEN StackOverflow
           ELSE LET types == TypeOf(type).members
                IN /\ stack' = Append(base, Frame("union", type, path, where, types,
                                                  TypeOf(types[1]).fields))
                   /\ selections' = selections \cup {node, InlineFragment(type, types[1], where)}
                   /\ phase' = "running"
                   /\ UNCHANGED visitedTypes
      [] isObjectType(type) ->
           IF ~firstCall /\ type \in schema.models /\ ~isIgnored(parent, type, path)
           THEN /\ stack' = base
                /\ selections' = selections \cup {node, IdNode(type, where)}
                /\ phase' = "running"
                /\ UNCHANGED visitedTypes
           ELSE IF Len(base) >= MaxStack THEN StackOverflow
           ELSE /\ stack' = Append(base, Frame("object", type, path, where, <<>>,
                                               Filtered(type)))
                /\ visitedTypes' = visitedTypes \cup {type}
                /\ selections' = selections \cup {node}
                /\ phase' = "running"
      [] OTHER ->
           /\ stack' = base
           /\ selections' = selections \cup {node}
           /\ phase' = "running"
           /\ UNCHANGED visitedTypes

resolveField(base, accumulator, type, field, firstCall, path, where) ==
    LET namedType == getNamedType(field.type)
        node == FieldNode(type, field, path, where)
    IN /\ operationVariables' =
             IF firstCall THEN accumulator
             ELSE accumulator \o FieldVariables(field, path)
       /\ IF ~isScalarType(namedType)
          THEN resolveSelectionSet(base, node, type, namedType, firstCall,
                                   path \o <<field.name>>, where \o <<field.name>>)
          ELSE /\ stack' = base
               /\ selections' = selections \cup {node}
               /\ phase' = "running"
               /\ UNCHANGED visitedTypes

\* the module as loaded: nothing accumulated, nothing visited
SynthLoaded ==
    /\ phase = "idle"
    /\ calls = 0
    /\ callField = NoName
    /\ stack = <<>>
    /\ selections = {}
    /\ operationVariables = <<>>
    /\ visitedTypes = {}
    /\ result = NoResult
    /\ built = [f \in {} |-> NoResult]

\* buildOperation up to the first resolveSelectionSet call: the reset, the
\* root field's variables and resolveField for the root field
BuildOperation(i) ==
    LET field == RootFields[i]
    IN /\ phase # "running"
       /\ calls < MaxCalls
       /\ calls' = calls + 1
       /\ callField' = field.name
       /\ result' = NoResult
       /\ resolveField(<<>>, RootVariables(field), schema.root, field, TRUE, <<>>, <<>>)
       /\ UNCHANGED <<schema, built>>

\* an object type's next filtered field, lines 233-240
ObjectField ==
    /\ phase = "running" /\ stack # <<>>
    /\ Top.kind = "object" /\ Top.todo # <<>>
    /\ LET field == Head(Top.todo)
       IN resolveField(Advanced, operationVariables, Top.type, field, FALSE,
                       Top.path \o <<field.name>>, Top.where)
    /\ UNCHANGED <<schema, calls, callField, result, built>>

\* an object type's fields are done: unmark it and return, lines 245-246
ObjectReturn ==
    /\ phase = "running" /\ stack # <<>>
    /\ Top.kind = "object" /\ Top.todo = <<>>
    /\ visitedTypes' = visitedTypes \ {Top.type}
    /\ stack' = Pop
    /\ UNCHANGED <<schema, phase, calls, callField, selections, operationVariables,
                   result, built>>

\* the next field of the union member in hand, lines 176-184
UnionField ==
    /\ phase = "running" /\ stack # <<>>
    /\ Top.kind = "union" /\ Top.todo # <<>>
    /\ LET field == Head(Top.todo)
           t == Head(Top.members)
       IN resolveField(Advanced, operationVariables, t, field, FALSE,
                       Top.path \o <<field.name>>, Top.where \o <<On(t)>>)
    /\ UNCHANGED <<schema, calls, callField, result, built>>

\* a member's fragment is complete: go on to the next member, line 162
UnionMember ==
    /\ phase = "running" /\ stack # <<>>
    /\ Top.kind = "union" /\ Top.todo = <<>> /\ Len(Top.members) > 1
    /\ LET t == Top.members[2]
       IN /\ stack' = Append(Pop, [Top EXCEPT !.members = Tail(@),
                                              !.todo = TypeOf(t).fields])
          /\ selections' = selections \cup {InlineFragment(Top.type, t, Top.where)}
    /\ UNCHANGED <<schema, phase, calls, callField, operationVariables, visitedTypes,
                   result, built>>

\* the last member's fragment is complete: return, line 160
UnionReturn ==
    /\ phase = "running" /\ stack # <<>>
    /\ Top.kind = "union" /\ Top.todo = <<>> /\ Len(Top.members) = 1
    /\ stack' = Pop
    /\ UNCHANGED <<schema, phase, calls, callField, selections, operationVariables,
                   visitedTypes, result, built>>

\* buildDocumentNode has returned: attach the variables, reset the
\* accumulator, return the document, lines 73-79
BuildOperationReturn ==
    /\ phase = "running" /\ stack = <<>>
    /\ phase' = "done"
    /\ result' = [name |-> buildOperationName(JoinUnderscore(<<callField, Nm(<<schema.kind>>)>>)),
                  selections |-> selections,
                  variables |-> operationVariables,
                  returned |-> TRUE]
    /\ built' = IF callField \in DOMAIN built THEN built
                ELSE [f \in DOMAIN built \cup {callField} |->
                        IF f = callField THEN result' ELSE built[f]]
    /\ selections' = {}
    /\ operationVariables' = <<>>
    /\ UNCHANGED <<schema, calls, callField, stack, visitedTypes>>

SynthNext ==
    \/ \E i \in 1..Len(RootFields) : BuildOperation(i) /\ UNCHANGED vars
    \/ ObjectField /\ UNCHANGED vars
    \/ ObjectReturn /\ UNCHANGED vars
    \/ UnionField /\ UNCHANGED vars
    \/ UnionMember /\ UNCHANGED vars
    \/ UnionReturn /\ UNCHANGED vars
    \/ BuildOperationReturn /\ UNCHANGED vars

\* the synthesizer on each of the schemas, the manager at rest
SynthInit == Init /\ hasReturn[KnownField] /\ schema \in Schemas /\ SynthLoaded

SynthSpec == SynthInit /\ [][SynthNext]_<<vars, synthVars>>

Next ==
    \/ \E name \in FieldNames, url \in Urls, v \in SuppliedVariables : Start(name, url, v) /\ UNCHANGED synthVars
    \/ \E id \in Ids : ExecuteStream(id) /\ UNCHANGED synthVars
    \/ \E id \in Ids : ExecuteResult(id) /\ UNCHANGED synthVars
    \/ \E id \in Ids : ExecuteRejected(id) /\ UNCHANGED synthVars
    \/ \E id \in Ids : Stop(id) /\ UNCHANGED synthVars
    \/ \E id \in Ids, v \in SuppliedVariables : Update(id, v) /\ UNCHANGED synthVars
    \/ \E id \in Ids : PumpValue(id) /\ UNCHANGED synthVars
    \/ \E id \in Ids : PumpDone(id) /\ UNCHANGED synthVars
    \/ \E id \in Ids : PumpThrow(id) /\ UNCHANGED synthVars
    \/ \E id \in Ids : PostOk(id) /\ UNCHANGED synthVars
    \/ \E id \in Ids : PostFail(id) /\ UNCHANGED synthVars
    \/ \E id \in Ids : PumpOnResolved(id) /\ UNCHANGED synthVars
    \/ \E id \in Ids : PumpOnRejected(id) /\ UNCHANGED synthVars

\* the manager, the synthesizer at rest
ManagerInit == Init /\ schema = ChatSchema /\ SynthLoaded

Spec == ManagerInit /\ [][Next]_<<vars, synthVars>>

\* promise reactions are microtasks: once forAwaitEach has settled, its
\* handler runs
LiveSpec ==
    /\ ManagerInit /\ [][Next]_<<vars, synthVars>>
    /\ \A id \in Ids : WF_vars(PumpOnResolved(id)) /\ WF_vars(PumpOnRejected(id))

(***************************************************************************)
(* The claims.                                                             *)
(***************************************************************************)
Sessions == DOMAIN clients

\* the step in which a start (its own, or the one update performs) returns {id}
StartReturnsId == response'.op \in {"start", "update"} /\ response'.kind = "id"

\* C1: when start's execution produces a live stream, exactly one entry is
\* added to the store, keyed by the identifier start returns; it records the
\* requested field name and callback target, the store grows by one and no
\* other entry changes.
C1_StartAddsOneSession ==
    [][StartReturnsId =>
         /\ response'.id \in DOMAIN pending
         /\ response'.id \notin Sessions
         /\ Sessions' = Sessions \cup {response'.id}
         /\ Cardinality(Sessions') = Cardinality(Sessions) + 1
         /\ clients'[response'.id] = [name |-> pending[response'.id].name,
                                      url |-> pending[response'.id].url]
         /\ \A k \in Sessions : clients'[k] = clients[k]]_vars

\* a start has just returned the identifier of a second session, the first
\* still in the store
C1_Witness ==
    /\ response.op = "start" /\ response.kind = "id"
    /\ response.id \in Sessions
    /\ Cardinality(Sessions) = 2

\* C2: an external stop(id) of a stored id signals the stream (when it can be
\* signalled), removes exactly that entry and returns {id}; of an id not in
\* the store it fails with UnknownSessionId and leaves the store as it is.
\* An id that left the store never returns, so a second stop fails.
C2_StopRemovesOrFails ==
    [][\A id \in Ids :
         /\ Stop(id) /\ id \in Sessions =>
              /\ (stream[id].canReturn /\ stream[id].state = "open"
                    => stream'[id].state = "returned")
              /\ Sessions' = Sessions \ {id}
              /\ \A k \in Sessions' : clients'[k] = clients[k]
              /\ response' = Response("stop", id, "id", id)
         /\ Stop(id) /\ id \notin Sessions =>
              /\ response' = Response("stop", id, "UnknownSessionId", NoId)
              /\ clients' = clients
         /\ (pump[id].pc # "idle" /\ id \notin Sessions) => id \notin Sessions']_vars

\* a stop has just removed one of two sessions and signalled its stream
C2_Witness ==
    /\ response.op = "stop" /\ response.kind = "id"
    /\ response.id \notin Sessions
    /\ stream[response.id].state = "returned"
    /\ Cardinality(Sessions) = 1

\* the step in which the update that start `n` belongs to returns
UpdateReturns(n) == n \in DOMAIN pending /\ pending[n].op = "update" /\ n \notin DOMAIN pending'

\* C3 as stated: update on a stored id returns a new identifier, different
\* from id and in the store when update returns, whatever the re-execution
\* produced.
C3_UpdateAlwaysReturnsNewId ==
    [][\A n \in Ids : UpdateReturns(n) =>
         /\ response'.kind = "id"
         /\ response'.id # pending[n].old
         /\ response'.id \in Sessions']_vars

\* C3 amended: when the re-execution produces a live stream, update returns a
\* new identifier, different from id and in the store when update returns;
\* otherwise it returns the immediate result or the error, and no entry is
\* added.
C3_UpdateReturnsNewIdOrResult ==
    [][\A n \in Ids : UpdateReturns(n) =>
         /\ response'.op = "update" /\ response'.arg = pending[n].old
         /\ IF n \in Sessions'
            THEN /\ response'.kind = "id"
                 /\ response'.id = n
                 /\ response'.id # response'.arg
                 /\ response'.arg \notin Sessions'
            ELSE /\ response'.kind \in {"result", "rejected"}
                 /\ clients' = clients]_vars

\* an update has just returned a new identifier that is in the store
C3_Witness ==
    /\ response.op = "update" /\ response.kind = "id"
    /\ response.id \in Sessions
    /\ response.id # response.arg

\* C4: once update has accepted a stored id, that id is out of the store from
\* then on, whatever the restart produces, and a later stop or update of it
\* fails with UnknownSessionId.
C4_UpdatedIdStaysAbsent ==
    [][\A id \in Ids :
         /\ (id \in Sessions /\ \E v \in SuppliedVariables : Update(id, v))
               => id \notin Sessions'
         /\ (pump[id].pc # "idle" /\ id \notin Sessions) =>
               /\ id \notin Sessions'
               /\ Stop(id) => response'.kind = "UnknownSessionId"
               /\ (\E v \in SuppliedVariables : Update(id, v))
                     => response'.kind = "UnknownSessionId"]_vars

\* an update of an id fails while the restart of an earlier, accepted update
\* of the same id is still suspended
C4_Witness ==
    /\ response = Response("update", response.arg, "UnknownSessionId", NoId)
    /\ \E n \in DOMAIN pending : pending[n].op = "update" /\ pending[n].old = response.arg

\* C5 as stated: the variable values handed to schema execution hold, for
\* every variable definition of the field's document whose value the caller
\* supplied, the coerced value under the variable's own name, and no other
\* binding.
C5_SuppliedVariablesAreBound ==
    \A id \in DOMAIN pending :
        \A k \in Keys :
            pending[id].variableValues[k] =
                IF /\ \E i \in DOMAIN operations[pending[id].name].variables :
                          operations[pending[id].name].variables[i] = k
                   /\ pending[id].variables[k] # Undefined
                THEN parseVariable(pending[id].variables[k])
                ELSE Undefined

\* C6: within one session the values are delivered in the order the stream
\* produced them, the next value is requested only when the delivery of the
\* previous one has finished, and no two deliveries of one identifier are
\* in flight together.
C6_SequentialDelivery ==
    \A id \in Ids :
        /\ Cardinality(pump[id].inflight) <= 1
        /\ \A i \in DOMAIN pump[id].delivered : pump[id].delivered[i] = i
        /\ pump[id].pc = "next" =>
              /\ pump[id].inflight = {}
              /\ Len(pump[id].delivered) = stream[id].produced
        /\ pump[id].pc = "post" =>
              pump[id].inflight = {Len(pump[id].delivered) + 1}

\* two sessions deliver at the same time, the first its second value
C6_Witness ==
    /\ pump[1].pc = "post" /\ pump[1].delivered = <<1>> /\ pump[1].inflight = {2}
    /\ pump[2].pc = "post" /\ pump[2].inflight = {1}

\* C7: when the stream of a registered session completes, raises an error,
\* or a delivery push fails, the identifier is eventually out of the store,
\* and the step that ends the session settles no caller's request.
C7_PumpEndRemovesSession ==
    /\ \A id \in Ids : (pump[id].pc \in {"resolved", "rejected"}) ~> (id \notin Sessions)
    /\ [][\A id \in Ids :
            (pump[id].pc \in {"resolved", "rejected"} /\ pump'[id].pc # pump[id].pc)
               => response' = NoResponse]_vars

\* a delivery of a registered session has failed after one that succeeded
C7_Witness ==
    \E id \in Ids :
        /\ pump[id].pc = "rejected"
        /\ id \in Sessions
        /\ pump[id].delivered = <<1>>
        /\ stream[id].produced = 2

\* C8 as stated: a stop the pump calls for an identifier already out of the
\* store raises no error.
C8_PumpStopNeverRaises ==
    \A id \in Ids : pump[id].pc # "unhandled"

\* C9: start of a field without a pre-built document fails with
\* UnknownSubscriptionField, suspends no execution and leaves the store and
\* every session as they are.
C9_UnknownFieldFails ==
    [][\A name \in FieldNames \ DOMAIN operations, url \in Urls, v \in SuppliedVariables :
          Start(name, url, v) =>
             /\ response' = Response("start", NoId, "UnknownSubscriptionField", NoId)
             /\ pending' = pending
             /\ clients' = clients
             /\ stream' = stream /\ pump' = pump]_vars

\* a start of an unknown field has failed while a session is in the store
C9_Witness ==
    /\ response = Response("start", NoId, "UnknownSubscriptionField", NoId)
    /\ Cardinality(Sessions) = 1

\* C10: when start's execution produces an immediate result, start returns
\* it, no entry is added to the store and no pump is started.
C10_ImmediateResultCreatesNoSession ==
    [][response'.kind = "result" =>
          \E id \in DOMAIN pending :
             /\ pending' = PendingWithout(id)
             /\ response' = Response(pending[id].op, pending[id].old, "result", NoId)
             /\ clients' = clients
             /\ id \notin Sessions'
             /\ pump' = pump /\ pump'[id].pc = "idle"
             /\ stream' = stream]_vars

\* the first start has returned an immediate result: no session, no pump
C10_Witness ==
    /\ response = Response("start", NoId, "result", NoId)
    /\ nextId = 2
    /\ Sessions = {}
    /\ pump[1].pc = "idle"

(***************************************************************************)
(* The claims about the synthesizer.                                       *)
(***************************************************************************)
IsPrefix(p, q) == Len(p) <= Len(q) /\ SubSeq(q, 1, Len(p)) = p
\* node m encloses node n in the document
Encloses(m, n) == IsPrefix(m.where \o <<m.name>>, n.where)
\* the nodes directly inside node m
Children(nodes, m) == {n \in nodes : n.where = m.where \o <<m.name>>}
IsObjectField(n) == n.kind = "Field" /\ n.type \in DOMAIN schema.types /\ isObjectType(n.type)

\* C11: for a cyclic schema (A has a field of type B, B a field of type A, or
\* A a field of type A) synthesis for a root field reaching A terminates, and
\* the document has no reference to A inside a selection of A (models, which
\* are collapsed instead, aside).
C11_CyclicSynthesisTerminates ==
    /\ phase # "thrown"
    /\ \A m, n \in result.selections :
         /\ IsObjectField(m) /\ IsObjectField(n)
         /\ m.type \notin schema.models
         /\ Encloses(m, n)
         => n.type # m.type


\* the document buildOperation returned
Document == result.selections
IsRootField(n) == n.kind = "Field" /\ n.where = <<>>
\* the field whose selection set holds node n
Holder(n) == {u \in Document : u.kind = "Field" /\ u.where \o <<u.name>> = n.where}
\* ignored by type name, or by "Parent.field" of the field that refers to it
Ignored(n) ==
    \/ IgnoreType(n.type) \in schema.ignore
    \/ n.kind = "Field" /\ IgnoreField(n.parent, n.name) \in schema.ignore
    \/ n.kind = "InlineFragment"
         /\ \E u \in Holder(n) : IgnoreField(u.parent, u.name) \in schema.ignore
\* a reference to an object type: a field of that type, or a union's fragment
IsReference(n) ==
    /\ n.type \in DOMAIN schema.types
    /\ isObjectType(n.type)
OnlyId(n) == \A c \in Children(Document, n) : c.name = Id /\ c.args = <<>>

\* C12: in a returned document every non-root reference to a non-ignored
\* model type, through a field or as a member of a union, selects only id;
\* the root field's selection has every field of its type.
C12_ModelsCollapseToId ==
    result.returned =>
      /\ \A n \in Document :
           /\ IsReference(n) /\ ~IsRootField(n)
           /\ n.type \in schema.models /\ ~Ignored(n)
           => OnlyId(n) /\ Children(Document, n) # {}
      /\ \A n \in Document :
           IsRootField(n) /\ IsReference(n) =>
             {c.name : c \in Children(Document, n)}
               = {TypeOf(n.type).fields[i].name : i \in 1..Len(TypeOf(n.type).fields)}


\* C13: in a returned document the variable definitions, one for each
\* argument occurrence, have pairwise distinct names.
C13_VariableNamesDistinct ==
    result.returned =>
      \A i, j \in 1..Len(result.variables) :
        i # j => result.variables[i].name # result.variables[j].name


\* C14: between buildOperation calls the accumulator is empty and no type is
\* marked visited, and a call returns what the first call for the same field
\* returned, whatever calls were made in between.
C14_CallsShareNoState ==
    /\ phase # "running" => operationVariables = <<>> /\ visitedTypes = {}
    /\ result.returned /\ callField \in DOMAIN built => result = built[callField]


\* the object type the i-th call on the stack is expanding: the type of an
\* object expansion, the member in hand of a union expansion
Expanding(i) == IF stack[i].kind = "object" THEN stack[i].type ELSE Head(stack[i].members)

\* C15: while a call runs, no object type is expanded twice on the active
\* path, and the types marked visited are exactly the types being expanded.
C15_VisitedIsActivePath ==
    phase = "running" =>
      /\ \A i, j \in 1..Len(stack) : i # j => Expanding(i) # Expanding(j)
      /\ visitedTypes = {Expanding(i) : i \in 1..Len(stack)}


\* the step enters the expansion of an object type
EntersObject ==
    /\ phase' = "running"
    /\ Len(stack') = Len(stack) + 1
    /\ stack'[Len(stack')].kind = "object"

\* C16: the fields an object expansion selects are exactly its type's fields
\* whose named type, every list and non-null wrapper stripped, is not visited
\* when the expansion is entered.
C16_OmittedIffNamedTypeVisited ==
    [][EntersObject =>
         stack'[Len(stack')].todo =
           SelectSeq(TypeOf(stack'[Len(stack')].type).fields,
                     LAMBDA f : getNamedType(f.type) \notin visitedTypes)]_synthVars


HasUnion == \E t \in DOMAIN schema.types : isUnionType(t)
IsUnionField(n) == n.kind = "Field" /\ n.type \in DOMAIN schema.types /\ isUnionType(n.type)
Members(u) == {TypeOf(u).members[i] : i \in 1..Len(TypeOf(u).members)}

\* one inline fragment per member type and nothing else
C17_OneFragmentPerMember ==
    result.returned =>
      \A u \in Document : IsUnionField(u) =>
        /\ \A c \in Children(Document, u) : c.kind = "InlineFragment"
        /\ {c.type : c \in Children(Document, u)} = Members(u.type)
        /\ Cardinality(Children(Document, u)) = Cardinality(Members(u.type))

\* C17: a union-typed field gets one inline fragment per member; a member
\* that is a non-ignored model is collapsed to id, a member being expanded is
\* marked visited, and synthesis on a schema with a union terminates.
C17_UnionMembersFollowObjectRules ==
    /\ C17_OneFragmentPerMember
    /\ result.returned =>
         \A n \in Document :
           n.kind = "InlineFragment" /\ n.type \in schema.models /\ ~Ignored(n)
           => OnlyId(n)
    /\ phase = "running" =>
         \A i \in 1..Len(stack) :
           stack[i].kind = "union" /\ stack[i].todo # <<>> => Expanding(i) \in visitedTypes
    /\ HasUnion => phase # "thrown"


\* the definitions in the returned variable list that carry the given name
Definitions(name) == {i \in 1..Len(result.variables) : result.variables[i].name = name}

\* C18: in a returned document every argument of every selected field refers
\* to a variable that has exactly one definition in the variable list, and
\* that definition has the argument's type.
C18_ArgumentsBoundToDefinitions ==
    result.returned =>
      \A n \in Document : \A k \in 1..Len(n.args) :
        /\ Cardinality(Definitions(n.args[k].variable)) = 1
        /\ \A i \in Definitions(n.args[k].variable) :
             result.variables[i].type = n.args[k].type


(***************************************************************************)
(* The claims about the manager, continued.                                *)
(***************************************************************************)
\* the starts that update has begun and that have not resumed yet
Restarts == {n \in DOMAIN pending : pending[n].op = "update"}

\* C19: update is stop-then-start and not atomic.  While update's start is
\* suspended the old session is already gone; a stop(old) made then fails
\* with UnknownSessionId and leaves the suspended start as it is, which can
\* still resume; when it resumes with a stream it registers a session under a
\* fresh identifier; an identifier that has left the store never returns, so
\* the old and the replacement session are never both in the store.
C19_UpdateIsStopThenStart ==
    /\ [](\A n \in Restarts :
            /\ pending[n].old \notin Sessions
            /\ n \notin Sessions
            /\ n # pending[n].old
            /\ ENABLED (ExecuteStream(n) /\ UNCHANGED synthVars))
    /\ [][\A n \in Restarts :
            /\ response'.op = "stop" /\ response'.arg = pending[n].old
               => /\ response'.kind = "UnknownSessionId"
                  /\ n \in DOMAIN pending' /\ pending'[n] = pending[n]
                  /\ clients' = clients
            /\ UpdateReturns(n) /\ response'.kind = "id"
               => /\ response'.id = n
                  /\ Sessions' = Sessions \cup {n}
                  /\ pending[n].old \notin Sessions']_vars
    /\ [][\A id \in Ids :
            id < nextId /\ id \notin Sessions /\ id \notin DOMAIN pending
            => id \notin Sessions']_vars

\* a stop of the old identifier has just failed while update's start is
\* still suspended
C19_Witness ==
    \E n \in Restarts :
      /\ response = Response("stop", pending[n].old, "UnknownSessionId", NoId)
      /\ pending[n].old \notin Sessions


\* C20: a push is started only for an identifier that is in the store.  A
\* value that arrives for an identifier that has left the store is not
\* posted: the pump is rejected with nothing in flight and nothing more
\* delivered, and no step of that pump changes the store.
C20_NoPushForAbsentId ==
    [][\A id \in Ids :
         /\ ~(pump'[id].inflight \subseteq pump[id].inflight) => id \in Sessions
         /\ id \notin Sessions /\ pump[id].pc # "idle"
            => /\ stream'[id].produced > stream[id].produced
                  => /\ pump'[id].pc = "rejected"
                     /\ pump'[id].delivered = pump[id].delivered
               /\ pump'[id] # pump[id] => clients' = clients]_vars

\* a first value has arrived on a stream that stop could not close, for an
\* identifier that is no longer in the store, and was not posted
C20_Witness ==
    \E id \in Ids :
      /\ id \notin Sessions
      /\ ~stream[id].canReturn /\ stream[id].state = "open" /\ stream[id].produced = 1
      /\ pump[id] = [pc |-> "rejected", inflight |-> {}, delivered |-> <<>>]

====
